---- MODULE Spec2Model ----
\* Multi-tenant vector knowledge store: per-tenant database provisioning,
\* per-source tables, vector writes and similarity search
\* (app/utils/vector_db_manager.py, app/services/vector_service.py,
\*  app/routes/data_source.py).
EXTENDS Integers, Sequences, FiniteSets, TLC

VARIABLES
    databases,   \* names of the databases that exist on the PostgreSQL server
    extension,   \* names of the databases in which the vector extension is enabled
    tables,      \* <<database name, table name>> -> [dim, rows] of every existing table
    engine,      \* VectorDBManager.engine of each tenant's manager: TRUE when not None
    last,        \* the call that finished last: its arguments, outcome and pre-state
    procs,       \* the concurrent callers of create_user_database: where each one is
    vector_sources,  \* the rows of the vector_sources table (the source catalog)
    data_sources,    \* the rows of the data_sources table
    chat             \* the create_message request in progress: where its retrieval loop is

vars == <<databases, extension, tables, engine, last, procs, vector_sources, data_sources, chat>>

\* ---------------------------------------------------------------- bounds

\* most rows a table may hold in the model
MaxRows == 2
\* longest batch handed to store_vectors
MaxBatch == 2
\* largest LIMIT handed to search_vectors
MaxLimit == 2

\* tenants (user ids)
Users == {1, 2}
\* concurrent callers of create_user_database
Procs == {1, 2}
\* table names handed to the manager (strings as sequences of characters)
TableNames == {<<"t">>}
\* dimensions handed to create_source_table
Dims == {0, 1, 2}
\* embedded chunks handed to store_vectors: embeddings of dimension 1 and 2, never the
\* zero vector
Chunks == {[content |-> "a", embedding |-> <<1>>],
           [content |-> "b", embedding |-> <<1, 0>>],
           [content |-> "c", embedding |-> <<1, 1>>],
           [content |-> "d", embedding |-> <<-1, 0>>]}

\* query vectors handed to search_vectors: one that tells all dimension-2 chunks apart,
\* one for which two of them tie (a table of dimension 1 gets a query of another length)
Queries == {<<1, 0>>, <<0, 1>>}
\* limits handed to search_vectors
Limits == -1..MaxLimit

\* most sources registered in the model
MaxSources == 2
\* display names of the sources registered
SourceNames == {<<"a">>, <<"A">>}
\* what uuid.uuid4() returns (as a string)
Uuids == {<<"e">>, <<"f">>}
\* the rows the data_sources table may hold when the service starts (no code of the
\* service inserts into it)
StoredDataSources ==
    {{},
     {[id |-> 1, user_id |-> 1, name |-> <<"F", " ", "a">>]},
     {[id |-> 1, user_id |-> 2, name |-> <<"b">>],
      [id |-> 2, user_id |-> 1, name |-> <<"f", "_", "a">>]}}
\* ids asked of DELETE /data-sources/{id}
SourceIds == 1..MaxSources

None == "None"

\* ---------------------------------------------------------------- helpers

RECURSIVE SeqsUpTo(_, _)
SeqsUpTo(S, n) ==
    IF n = 0 THEN {<<>>}
    ELSE LET shorter == SeqsUpTo(S, n - 1)
         IN  shorter \cup {Append(s, x) : s \in {t \in shorter : Len(t) = n - 1}, x \in S}

Min(a, b) == IF a <= b THEN a ELSE b

\* the batches handed to store_vectors
Batches == SeqsUpTo(Chunks, MaxBatch)

\* the embedded chunks of the sources registered: none, one, two of one dimension, two
\* of different dimensions
Documents ==
    {<<>>,
     <<[content |-> "b", embedding |-> <<1, 0>>]>>,
     <<[content |-> "b", embedding |-> <<1, 0>>], [content |-> "c", embedding |-> <<1, 1>>]>>,
     <<[content |-> "b", embedding |-> <<1, 0>>], [content |-> "a", embedding |-> <<1>>]>>}

\* what loading, splitting and embedding a source gives: the embedded chunks, or the
\* call that raised
Ingests ==
    {[kind |-> "load_and_split", vectors |-> <<>>],
     [kind |-> "get_embedding", vectors |-> <<>>]}
    \cup {[kind |-> "docs", vectors |-> v] : v \in Documents}

\* ---------------------------------------------------------------- PostgreSQL + pgvector

\* the key of a table: the database it lives in and its identifier
Key(db, ident) == <<db, ident>>

TableExists(tbls, db, ident) == Key(db, ident) \in DOMAIN tbls

\* rows stored on the whole server (the bound of the model is on this sum)
RECURSIVE SumRows(_)
SumRows(keys) ==
    IF keys = {} THEN 0
    ELSE LET k == CHOOSE x \in keys : TRUE
         IN  Len(tables[k].rows) + SumRows(keys \ {k})

TotalRows == SumRows(DOMAIN tables)

\* CREATE TABLE without IF NOT EXISTS: an existing relation is an error
PgCreateTable_Plain(tbls, ext, db, ident, dim) ==
    IF Key(db, ident) \in DOMAIN tbls \/ db \notin ext \/ dim < 1 \/ ident = <<>>
    THEN [ok |-> FALSE, tables |-> tbls]
    ELSE [ok |-> TRUE, tables |-> tbls @@ (Key(db, ident) :> [dim |-> dim, rows |-> <<>>])]

\* an existing relation gets the dimension asked for (ALTER COLUMN ... TYPE vector(dim))
PgCreateTable_AlterDim(tbls, ext, db, ident, dim) ==
    IF db \notin ext \/ dim < 1 \/ ident = <<>> THEN [ok |-> FALSE, tables |-> tbls]
    ELSE IF TableExists(tbls, db, ident)
         THEN [ok |-> TRUE, tables |-> [tbls EXCEPT ![Key(db, ident)].dim = dim]]
         ELSE [ok |-> TRUE,
               tables |-> tbls @@ (Key(db, ident) :> [dim |-> dim, rows |-> <<>>])]

\* CREATE TABLE IF NOT EXISTS "ident" (... embedding vector(dim)): an existing relation
\* is skipped with a notice before the column types are looked at; otherwise the vector
\* type must exist in the database and its dimension must be at least 1
PgCreateTableIfNotExists(tbls, ext, db, ident, dim) ==
    IF TableExists(tbls, db, ident) THEN [ok |-> TRUE, tables |-> tbls]
    ELSE IF db \notin ext \/ dim < 1 \/ ident = <<>>
         THEN [ok |-> FALSE, tables |-> tbls]
         ELSE [ok |-> TRUE,
               tables |-> tbls @@ (Key(db, ident) :> [dim |-> dim, rows |-> <<>>])]

\* DROP TABLE IF EXISTS "ident"
PgDropTableIfExists(tbls, db, ident) ==
    [k \in DOMAIN tbls \ {Key(db, ident)} |-> tbls[k]]

\* the assignment cast of an array to vector(dim): "expected dim dimensions, not n"
PgCastToColumn(embedding, dim) ==
    IF Len(embedding) = dim THEN [ok |-> TRUE, value |-> embedding]
    ELSE [ok |-> FALSE, value |-> <<>>]

\* one INSERT INTO "ident" (content, metadata, embedding) inside a transaction whose
\* uncommitted rows are `pending`: fails when the relation is missing or the cast fails
PgInsert(tbls, db, ident, pending, vector) ==
    IF ~TableExists(tbls, db, ident) THEN [ok |-> FALSE, rows |-> pending]
    ELSE LET cast == PgCastToColumn(vector.embedding, tbls[Key(db, ident)].dim)
         IN  IF cast.ok
             THEN [ok |-> TRUE,
                   rows |-> Append(pending, [content |-> vector.content,
                                             embedding |-> cast.value])]
             ELSE [ok |-> FALSE, rows |-> pending]

\* ---------------------------------------------------------------- VectorDBManager

\* one database for every tenant
DbName_Shared(user_id) == <<"vector_db_", 0>>

\* __init__: db_name = f"vector_db_{user_id}"
DbName(user_id) == <<"vector_db_", user_id>>

\* _user_db_url: f"{base}{self.db_name}": the database a tenant connection opens
UserDbUrl(user_id) == DbName(user_id)

\* psycopg2.connect / engine.connect on the tenant URL: fails when the database is absent
CanConnect(user_id) == UserDbUrl(user_id) \in databases

\* source_name.replace('"', '""')
RECURSIVE SafeTableName(_)
SafeTableName(name) ==
    IF name = <<>> THEN <<>>
    ELSE (IF Head(name) = "\"" THEN <<"\"", "\"">> ELSE <<Head(name)>>)
         \o SafeTableName(Tail(name))

\* the identifier PostgreSQL reads between the double quotes of f'"{safe_table_name}"':
\* a doubled quote stands for one quote, a single quote ends the identifier
RECURSIVE PgQuotedIdent(_)
PgQuotedIdent(text) ==
    IF text = <<>> THEN <<>>
    ELSE IF Head(text) # "\"" THEN <<Head(text)>> \o PgQuotedIdent(Tail(text))
    ELSE IF Len(text) >= 2 /\ text[2] = "\"" THEN <<"\"">> \o PgQuotedIdent(Tail(Tail(text)))
    ELSE <<>>

\* the table a statement built from source_name names
Ident(source_name) == PgQuotedIdent(SafeTableName(source_name))

Init ==
    /\ databases = {}
    /\ extension = {}
    /\ tables = [k \in {} |-> 0]
    /\ engine = [u \in Users |-> FALSE]
    /\ last = [op |-> None]
    /\ procs = [p \in Procs |-> [pc |-> "idle", user |-> 0, found |-> FALSE,
                                 engine |-> FALSE]]
    /\ vector_sources = {}
    /\ data_sources = {}
    /\ chat = [pc |-> "idle"]

\* the existence check left out: CREATE DATABASE is always issued
SelectPgDatabase_Unchecked(db_name) == FALSE

\* SELECT 1 FROM pg_database WHERE datname = %s; cur.fetchone()
SelectPgDatabase(db_name) == db_name \in databases

\* CREATE DATABASE "db_name": raises DuplicateDatabase when the name is taken
PgCreateDatabase(db_name) ==
    IF db_name \in databases THEN [ok |-> FALSE, databases |-> databases]
    ELSE [ok |-> TRUE, databases |-> databases \cup {db_name}]

\* create_user_database: SELECT 1 FROM pg_database; CREATE DATABASE when no row came back;
\* CREATE EXTENSION IF NOT EXISTS vector on the tenant connection; engine = create_engine
create_user_database(u) ==
    LET found == SelectPgDatabase(DbName(u))
        made == IF found THEN [ok |-> TRUE, databases |-> databases]
                ELSE PgCreateDatabase(DbName(u))
        \* psycopg2.connect(self._user_db_url())
        ok == made.ok /\ UserDbUrl(u) \in made.databases
    IN  [ok |-> ok, issued |-> IF found THEN 0 ELSE 1,
         databases |-> made.databases,
         extension |-> IF ok THEN extension \cup {UserDbUrl(u)} ELSE extension]

\* a call of create_user_database on the manager of tenant u
CreateUserDatabase(u) ==
    LET r == create_user_database(u)
    IN  /\ databases' = r.databases
        /\ extension' = r.extension
        /\ engine' = IF r.ok THEN [engine EXCEPT ![u] = TRUE] ELSE engine
        /\ UNCHANGED <<tables, procs, vector_sources, data_sources, chat>>
        /\ last' = [op |-> "create_user_database", user |-> u, issued |-> r.issued,
                    outcome |-> IF r.ok THEN "ok" ELSE "error"]

\* ensure_engine: the engine is assigned before the connection is tried, so it stays set
\* when the connection fails; CREATE EXTENSION IF NOT EXISTS is not committed
EnsureEngine(u) == [engine |-> [engine EXCEPT ![u] = TRUE], ok |-> engine[u] \/ CanConnect(u)]

\* create_source_table on a manager whose ensure_engine went through, in a server
\* whose databases, extensions and tables are dbs, ext and tbls
create_source_table(dbs, ext, tbls, u, source_name, dimension) ==
    LET made == PgCreateTableIfNotExists(tbls, ext, UserDbUrl(u), Ident(source_name),
                                         dimension)
        ok == UserDbUrl(u) \in dbs /\ made.ok
    IN  [ok |-> ok, tables |-> IF ok THEN made.tables ELSE tbls]

\* a call of create_source_table on the manager of tenant u
CreateSourceTable(u, source_name, dimension) ==
    LET ee == EnsureEngine(u)
        r == create_source_table(databases, extension, tables, u, source_name, dimension)
        ok == ee.ok /\ r.ok
    IN  /\ engine' = ee.engine
        /\ tables' = IF ok THEN r.tables ELSE tables
        /\ UNCHANGED <<databases, extension, procs, vector_sources, data_sources, chat>>
        /\ last' = [op |-> "create_source_table", user |-> u, table |-> source_name,
                    dim |-> dimension,
                    existed |-> TableExists(tables, UserDbUrl(u), Ident(source_name)),
                    \* conn.execute(query): the CREATE TABLE is sent once connected
                    issued |-> IF ee.ok /\ CanConnect(u) THEN 1 ELSE 0,
                    outcome |-> IF ok THEN "ok" ELSE "error"]

\* the loop with each INSERT in a try/except that skips the chunk that raised
RECURSIVE InsertAll_SkipFailed(_, _, _, _, _, _)
InsertAll_SkipFailed(tbls, db, ident, vectors, i, pending) ==
    IF i > Len(vectors) THEN [failedAt |-> 0, rows |-> pending]
    ELSE InsertAll_SkipFailed(tbls, db, ident, vectors, i + 1,
                              PgInsert(tbls, db, ident, pending, vectors[i]).rows)

\* the loop of store_vectors inside `with self.engine.begin() as conn`: the rows the
\* transaction holds after vectors[i..], and the index of the INSERT that raised (0: none)
RECURSIVE InsertAll(_, _, _, _, _, _)
InsertAll(tbls, db, ident, vectors, i, pending) ==
    IF i > Len(vectors) THEN [failedAt |-> 0, rows |-> pending]
    ELSE LET r == PgInsert(tbls, db, ident, pending, vectors[i])
         IN  IF r.ok THEN InsertAll(tbls, db, ident, vectors, i + 1, r.rows)
             ELSE [failedAt |-> i, rows |-> r.rows]

\* engine.connect() with a commit after every INSERT: nothing is rolled back
TransactionEnd_Autocommit(before, run) == run.rows

\* engine.begin(): commit when the block ends normally, roll back when it raises
TransactionEnd(before, run) ==
    IF run.failedAt = 0 THEN run.rows ELSE before

\* the first chunk of a batch whose embedding is not of dimension dim (0: none)
RECURSIVE FirstMismatch(_, _, _)
FirstMismatch(vectors, dim, i) ==
    IF i > Len(vectors) THEN 0
    ELSE IF Len(vectors[i].embedding) # dim THEN i
    ELSE FirstMismatch(vectors, dim, i + 1)

\* store_vectors on a manager whose ensure_engine went through
store_vectors(dbs, tbls, u, source_name, vectors) ==
    LET db == UserDbUrl(u)
        ident == Ident(source_name)
        exists == TableExists(tbls, db, ident)
        before == IF exists THEN tbls[Key(db, ident)].rows ELSE <<>>
        run == InsertAll(tbls, db, ident, vectors, 1, before)
        \* with self.engine.begin() as conn
        connected == db \in dbs
        after == TransactionEnd(before, run)
    IN  [ok |-> connected /\ run.failedAt = 0,
         failedAt |-> IF connected THEN run.failedAt ELSE 0,
         tables |-> IF connected /\ exists
                    THEN [tbls EXCEPT ![Key(db, ident)].rows = after]
                    ELSE tbls]

\* a call of store_vectors on the manager of tenant u
StoreVectors(u, source_name, vectors) ==
    LET ee == EnsureEngine(u)
        k == Key(UserDbUrl(u), Ident(source_name))
        exists == ee.ok /\ CanConnect(u) /\ k \in DOMAIN tables
        r == store_vectors(databases, tables, u, source_name, vectors)
    IN  /\ TotalRows + Len(vectors) <= MaxRows
        /\ engine' = ee.engine
        /\ tables' = IF ee.ok THEN r.tables ELSE tables
        /\ UNCHANGED <<databases, extension, procs, vector_sources, data_sources, chat>>
        /\ last' = [op |-> "store_vectors", user |-> u, table |-> source_name,
                    n |-> Len(vectors),
                    before |-> IF exists THEN Len(tables[k].rows) ELSE -1,
                    failedAt |-> IF ee.ok THEN r.failedAt ELSE 0,
                    mismatch |-> IF exists THEN FirstMismatch(vectors, tables[k].dim, 1)
                                 ELSE 0,
                    outcome |-> IF ee.ok /\ r.ok THEN "ok" ELSE "error"]

\* str(x) of one component of the query vector: its sign and its digits
PyStr(x) == IF x < 0 THEN <<"-", -x>> ELSE <<"", x>>

\* "[" + ",".join(map(str, query_vector)) + "]"
VectorStr(query_vector) ==
    <<"[">> \o [i \in 1..Len(query_vector) |-> PyStr(query_vector[i])] \o <<"]">>

\* CAST(:query_vector AS vector): the components between the brackets; a vector must have
\* at least 1 dimension
PgParseVector(str) ==
    LET inner == SubSeq(str, 2, Len(str) - 1)
    IN  IF Len(str) < 3 \/ Head(str) # "[" \/ str[Len(str)] # "]"
        THEN [ok |-> FALSE, value |-> <<>>]
        ELSE [ok |-> TRUE,
              value |-> [i \in 1..Len(inner) |->
                            IF inner[i][1] = "-" THEN 0 - inner[i][2] ELSE inner[i][2]]]

RECURSIVE Dot(_, _)
Dot(x, y) == IF x = <<>> THEN 0 ELSE Head(x) * Head(y) + Dot(Tail(x), Tail(y))

\* a number a + b * num / sqrt(den2), kept exact
Number(a, b, num, den2) == [a |-> a, b |-> b, num |-> num, den2 |-> den2]

\* embedding <=> query: the cosine distance 1 - x.y / sqrt(x.x * y.y)
CosineDistance(x, y) == Number(1, -1, Dot(x, y), Dot(x, x) * Dot(y, y))

\* 1 - d
OneMinus(d) == Number(1 - d.a, 0 - d.b, d.num, d.den2)

\* x.num / sqrt(x.den2) >= y.num / sqrt(y.den2)
RatioGE(x, y) ==
    IF x.num >= 0 /\ y.num < 0 THEN TRUE
    ELSE IF x.num < 0 /\ y.num >= 0 THEN FALSE
    ELSE IF x.num >= 0 THEN x.num * x.num * y.den2 >= y.num * y.num * x.den2
    ELSE x.num * x.num * y.den2 <= y.num * y.num * x.den2

\* x >= y for two numbers of the same a and b
NumberGE(x, y) == IF x.b >= 0 THEN RatioGE(x, y) ELSE RatioGE(y, x)

\* ORDER BY similarity (ascending)
SortsBefore_Ascending(x, y) == ~NumberGE(x.similarity, y.similarity)

\* ORDER BY similarity DESC: a row sorts before another of strictly lower similarity
SortsBefore(x, y) == ~NumberGE(y.similarity, x.similarity)

\* the sort: each row of the scan is put behind the rows that do not sort after it
RECURSIVE InsertSorted(_, _)
InsertSorted(sorted, x) ==
    IF sorted = <<>> THEN <<x>>
    ELSE IF SortsBefore(x, Head(sorted)) THEN <<x>> \o sorted
    ELSE <<Head(sorted)>> \o InsertSorted(Tail(sorted), x)

RECURSIVE OrderBy(_, _)
OrderBy(scan, sorted) ==
    IF scan = <<>> THEN sorted
    ELSE OrderBy(Tail(scan), InsertSorted(sorted, Head(scan)))

\* LIMIT :limit
PgLimit(rows, limit) == SubSeq(rows, 1, Min(limit, Len(rows)))

\* the orders in which a scan may return the m rows of a table
ScanOrders(m) == {p \in [1..m -> 1..m] : \A i, j \in 1..m : i # j => p[i] # p[j]}

\* the SELECT of search_vectors over the rows of a table read in the order `scan`:
\* the operator <=> raises on a row of another dimension, LIMIT on a negative count
PgSelectSimilar(table, scan, query, limit) ==
    LET q == PgParseVector(query)
        m == Len(table.rows)
        selected == [i \in 1..m |->
                        [content |-> table.rows[scan[i]].content,
                         similarity |->
                            OneMinus(CosineDistance(table.rows[scan[i]].embedding, q.value))]]
    IN  IF ~q.ok \/ limit < 0 \/ (m > 0 /\ Len(q.value) # table.dim)
        THEN [ok |-> FALSE, rows |-> <<>>]
        ELSE [ok |-> TRUE, rows |-> PgLimit(OrderBy(selected, <<>>), limit)]

\* a SELECT on a relation that does not exist returns no row instead of raising
SearchVectors_EmptyOnMissing(u, source_name, query_vector, limit) ==
    /\ engine' = EnsureEngine(u).engine
    /\ UNCHANGED <<databases, extension, tables, procs, vector_sources, data_sources, chat>>
    /\ last' = [op |-> "search_vectors", user |-> u, table |-> source_name,
                query |-> query_vector, limit |-> limit,
                existed |-> TableExists(tables, UserDbUrl(u), Ident(source_name)),
                outcome |-> "ok", result |-> <<>>]

\* search_vectors
SearchVectors(u, source_name, query_vector, limit) ==
    LET ee == EnsureEngine(u)
        db == UserDbUrl(u)
        ident == Ident(source_name)
        reachable == ee.ok /\ CanConnect(u) /\ TableExists(tables, db, ident)
    IN  /\ engine' = ee.engine
        /\ UNCHANGED <<databases, extension, tables, procs, vector_sources, data_sources, chat>>
        /\ IF ~reachable
           THEN last' = [op |-> "search_vectors", user |-> u, table |-> source_name,
                         query |-> query_vector, limit |-> limit,
                         existed |-> TableExists(tables, db, ident),
                         outcome |-> "error", result |-> <<>>]
           ELSE \E scan \in ScanOrders(Len(tables[Key(db, ident)].rows)) :
                   LET got == PgSelectSimilar(tables[Key(db, ident)], scan,
                                              VectorStr(query_vector), limit)
                   IN  last' = [op |-> "search_vectors", user |-> u, table |-> source_name,
                                query |-> query_vector, limit |-> limit,
                                existed |-> TRUE,
                                outcome |-> IF got.ok THEN "ok" ELSE "error",
                                result |-> got.rows]

\* delete_source_table on a manager whose ensure_engine went through
delete_source_table(dbs, tbls, u, table_name) ==
    LET ok == UserDbUrl(u) \in dbs
    IN  [ok |-> ok,
         tables |-> IF ok THEN PgDropTableIfExists(tbls, UserDbUrl(u), Ident(table_name))
                    ELSE tbls]

\* a call of delete_source_table on the manager of tenant u
DeleteSourceTable(u, table_name) ==
    LET ee == EnsureEngine(u)
        r == delete_source_table(databases, tables, u, table_name)
        ok == ee.ok /\ r.ok
    IN  /\ engine' = ee.engine
        /\ tables' = IF ok THEN r.tables ELSE tables
        /\ UNCHANGED <<databases, extension, procs, vector_sources, data_sources, chat>>
        /\ last' = [op |-> "delete_source_table", user |-> u, table |-> table_name,
                    existed |-> TableExists(tables, UserDbUrl(u), Ident(table_name)),
                    hadDb |-> CanConnect(u),
                    outcome |-> IF ok THEN "ok" ELSE "error"]

\* close: engine.dispose(); engine = None
Close(u) ==
    /\ engine[u]
    /\ engine' = [engine EXCEPT ![u] = FALSE]
    /\ UNCHANGED <<databases, extension, tables, procs, vector_sources, data_sources, chat>>
    /\ last' = [op |-> "close", user |-> u, outcome |-> "ok"]

Next ==
    \/ \E u \in Users : CreateUserDatabase(u)
    \/ \E u \in Users, t \in TableNames, d \in Dims : CreateSourceTable(u, t, d)
    \/ \E u \in Users, t \in TableNames, b \in Batches : StoreVectors(u, t, b)
    \/ \E u \in Users, t \in TableNames, q \in Queries, k \in Limits :
          SearchVectors(u, t, q, k)
    \/ \E u \in Users, t \in TableNames : DeleteSourceTable(u, t)
    \/ \E u \in Users : Close(u)

Spec == Init /\ [][Next]_vars

\* ---------------------------------------------------------------- concurrent provisioning
\* create_user_database called by several requests at once (process_data_source runs it
\* first): each caller has its own VectorDBManager and admin connection; every statement
\* is one step

store == <<databases, extension, tables, engine, last, vector_sources, data_sources, chat>>

\* create_user_database is entered for tenant u: _admin_connection()
EnterCreateUserDatabase(p, u) ==
    /\ procs[p].pc = "idle"
    /\ procs' = [procs EXCEPT ![p] = [pc |-> "select", user |-> u, found |-> FALSE,
                                      engine |-> FALSE]]
    /\ UNCHANGED store

\* cur.execute("SELECT 1 FROM pg_database ..."); if not cur.fetchone()
AdminSelect(p) ==
    /\ procs[p].pc = "select"
    /\ LET found == SelectPgDatabase(DbName(procs[p].user))
       IN  procs' = [procs EXCEPT ![p].found = found,
                                  ![p].pc = IF found THEN "extension" ELSE "create"]
    /\ UNCHANGED store

\* cur.execute(f'CREATE DATABASE "{self.db_name}"'): the exception leaves the method
\* through the finally that closes the admin connection
AdminCreate(p) ==
    /\ procs[p].pc = "create"
    /\ LET made == PgCreateDatabase(DbName(procs[p].user))
       IN  /\ databases' = made.databases
           /\ procs' = [procs EXCEPT ![p].pc = IF made.ok THEN "extension" ELSE "raised"]
    /\ UNCHANGED <<extension, tables, engine, last, vector_sources, data_sources, chat>>

\* CREATE EXTENSION IF NOT EXISTS vector on the tenant connection, commit,
\* self.engine = create_engine(...), return
EnableExtension(p) ==
    /\ procs[p].pc = "extension"
    /\ IF UserDbUrl(procs[p].user) \in databases
       THEN /\ extension' = extension \cup {UserDbUrl(procs[p].user)}
            /\ procs' = [procs EXCEPT ![p].pc = "returned", ![p].engine = TRUE]
       ELSE /\ extension' = extension
            /\ procs' = [procs EXCEPT ![p].pc = "raised"]
    /\ UNCHANGED <<databases, tables, engine, last, vector_sources, data_sources, chat>>

\* the request is over; the caller serves its next request with a new manager
NextRequest(p) ==
    /\ procs[p].pc \in {"returned", "raised"}
    /\ procs' = [procs EXCEPT ![p] = [pc |-> "idle", user |-> 0, found |-> FALSE,
                                      engine |-> FALSE]]
    /\ UNCHANGED store

NextConc ==
    \/ \E p \in Procs, u \in Users : EnterCreateUserDatabase(p, u)
    \/ \E p \in Procs : AdminSelect(p)
    \/ \E p \in Procs : AdminCreate(p)
    \/ \E p \in Procs : EnableExtension(p)
    \/ \E p \in Procs : NextRequest(p)

SpecConc == Init /\ [][NextConc]_vars

\* ---------------------------------------------------------------- source catalog
\* VectorService.create_vector_source and the DELETE /data-sources/{id} route; every
\* request builds its own VectorService, so its manager starts with engine = None

\* str.lower() on the characters of the model
Lower(ch) ==
    CASE ch = "A" -> "a"
      [] ch = "B" -> "b"
      [] ch = "F" -> "f"
      [] OTHER -> ch

\* name.lower().replace(' ', '_')
TableSuffix(name) ==
    [i \in 1..Len(name) |-> IF Lower(name[i]) = " " THEN "_" ELSE Lower(name[i])]

\* str(uuid.uuid4())[:8]
UniqueId(uuid) == SubSeq(uuid, 1, Min(8, Len(uuid)))

\* f"vector_{self.user_id}_{unique_id}_{name.lower().replace(' ', '_')}"
VectorTableName(user_id, unique_id, name) ==
    <<"vector_", ToString(user_id), "_">> \o unique_id \o <<"_">> \o TableSuffix(name)

\* f"vector_{current_user.id}_{data_source.name.lower().replace(' ', '_')}"
DeletedTableName(user_id, name) ==
    <<"vector_", ToString(user_id), "_">> \o TableSuffix(name)

\* the id the serial primary key gives the next row
NextId(rows) == Cardinality(rows) + 1

InitCatalog ==
    /\ databases = {}
    /\ extension = {}
    /\ tables = [k \in {} |-> 0]
    /\ engine = [u \in Users |-> FALSE]
    /\ last = [op |-> None]
    /\ procs = [p \in Procs |-> [pc |-> "idle", user |-> 0, found |-> FALSE,
                                 engine |-> FALSE]]
    /\ vector_sources = {}
    /\ data_sources \in StoredDataSources
    /\ chat = [pc |-> "idle"]

\* EmbeddingManager.get_embedding: the vector the embedding model returns for a text
get_embedding(text) == (CHOOSE c \in Chunks : c.content = text).embedding

\* every chunk gets the embedding of the first chunk of the list
EmbedDocuments_FirstForAll(documents) ==
    [i \in 1..Len(documents) |->
        [content |-> documents[i].content,
         embedding |-> get_embedding(documents[1].content)]]

\* the loop over documents: one get_embedding call per chunk, in order, each appended
\* entry pairing the chunk's page_content with the vector returned for it
EmbedDocuments(documents) ==
    [i \in 1..Len(documents) |->
        [content |-> documents[i].content,
         embedding |-> get_embedding(documents[i].content)]]

\* the source table is created, with the dimension the model is configured for, before
\* the source is loaded and embedded
process_data_source_TableFirst(u, table_name, ingest) ==
    LET made == create_user_database(u)
        vectors == EmbedDocuments(ingest.vectors)
        table == create_source_table(made.databases, made.extension, tables, u,
                                     table_name, 2)
        stored == store_vectors(made.databases, table.tables, u, table_name, vectors)
        raised == IF ~made.ok THEN "create_user_database"
                  ELSE IF ~table.ok THEN "create_source_table"
                  ELSE IF ingest.kind # "docs" THEN ingest.kind
                  ELSE IF ~stored.ok THEN "store_vectors"
                  ELSE ""
        sent == raised \in {"", "store_vectors"}
    IN  [raised |-> raised,
         databases |-> made.databases,
         extension |-> made.extension,
         calls |-> IF made.ok /\ table.ok /\ ingest.kind = "docs" THEN Len(vectors) ELSE 0,
         mismatch |-> IF sent THEN FirstMismatch(vectors, 2, 1) ELSE 0,
         inserts |-> IF ~sent THEN 0
                     ELSE IF stored.failedAt = 0 THEN Len(vectors) ELSE stored.failedAt,
         tables |-> IF raised = "create_user_database" THEN tables
                    ELSE IF raised \in {"create_source_table", "load_and_split",
                                        "get_embedding"}
                    THEN table.tables
                    ELSE stored.tables]

\* process_data_source: the stage that raised ("" when none did), and the server after it
process_data_source(u, table_name, ingest) ==
    LET made == create_user_database(u)
        vectors == EmbedDocuments(ingest.vectors)
        \* len(vectors[0]["embedding"]) raises IndexError on an empty list
        table == IF vectors = <<>> THEN [ok |-> FALSE, tables |-> tables]
                 ELSE create_source_table(made.databases, made.extension, tables, u,
                                          table_name, Len(vectors[1].embedding))
        stored == store_vectors(made.databases, table.tables, u, table_name, vectors)
        raised == IF ~made.ok THEN "create_user_database"
                  ELSE IF ingest.kind # "docs" THEN ingest.kind
                  ELSE IF ~table.ok THEN "create_source_table"
                  ELSE IF ~stored.ok THEN "store_vectors"
                  ELSE ""
        \* store_vectors was reached
        sent == raised \in {"", "store_vectors"}
    IN  [raised |-> raised,
         databases |-> made.databases,
         extension |-> made.extension,
         \* get_embedding calls that returned
         calls |-> IF made.ok /\ ingest.kind = "docs" THEN Len(vectors) ELSE 0,
         \* the first chunk whose embedding is not of the dimension of the table
         mismatch |-> IF sent THEN FirstMismatch(vectors, Len(vectors[1].embedding), 1)
                      ELSE 0,
         \* INSERT statements sent by store_vectors
         inserts |-> IF ~sent THEN 0
                     ELSE IF stored.failedAt = 0 THEN Len(vectors) ELSE stored.failedAt,
         tables |-> IF raised \in {"create_user_database", "load_and_split", "get_embedding"}
                    THEN tables
                    ELSE IF raised = "create_source_table" THEN table.tables
                    ELSE stored.tables]

\* no constraint on the column: a table name is never taken
TableNameTaken_NoConstraint(rows, table_name) == FALSE

\* table_name = Column(String, nullable=False, unique=True): the INSERT of a row whose
\* table_name a row of the table already has raises IntegrityError
TableNameTaken(rows, table_name) == \E r \in rows : r.table_name = table_name

\* create_vector_source: the catalog row is committed before the source is processed
CreateVectorSource(u, name, uuid, ingest) ==
    LET table_name == VectorTableName(u, UniqueId(uuid), name)
        \* db.commit() raises IntegrityError
        duplicate == TableNameTaken(vector_sources, table_name)
        row == [id |-> NextId(vector_sources), user_id |-> u, name |-> name,
                table_name |-> table_name, updated |-> FALSE]
        done == process_data_source(u, table_name, ingest)
    IN  /\ Cardinality(vector_sources) < MaxSources
        /\ TotalRows + Len(ingest.vectors) <= MaxRows
        /\ IF duplicate
           THEN /\ UNCHANGED <<databases, extension, tables, vector_sources>>
                /\ last' = [op |-> "create_vector_source", user |-> u, id |-> 0,
                            table |-> table_name, outcome |-> "error",
                            documents |-> <<>>,
                            calls |-> 0, mismatch |-> 0, inserts |-> 0,
                            raised |-> "commit"]
           ELSE /\ databases' = done.databases
                /\ extension' = done.extension
                /\ tables' = done.tables
                /\ vector_sources' = vector_sources \cup
                       {[row EXCEPT !.updated = (done.raised = "")]}
                /\ last' = [op |-> "create_vector_source", user |-> u, id |-> row.id,
                            table |-> table_name,
                            outcome |-> IF done.raised = "" THEN "ok" ELSE "error",
                            documents |-> ingest.vectors,
                            calls |-> done.calls, mismatch |-> done.mismatch,
                            inserts |-> done.inserts,
                            raised |-> done.raised]
        /\ UNCHANGED <<engine, procs, data_sources, chat>>

\* delete_data_source: the row is looked up in data_sources; delete_source_table is a
\* plain function, so awaiting what it returned (None) raises TypeError once the drop is
\* done; the except turns every exception into a 500 after db.rollback()
DeleteDataSource(u, data_source_id) ==
    LET found == {r \in data_sources : r.id = data_source_id /\ r.user_id = u}
        data_source == CHOOSE r \in found : TRUE
        table_name == DeletedTableName(u, data_source.name)
        dropped == delete_source_table(databases, tables, u, table_name)
    IN  /\ IF found = {}
           THEN /\ UNCHANGED tables
                /\ last' = [op |-> "delete_data_source", user |-> u, id |-> data_source_id,
                            outcome |-> "404", dropped |-> {}]
           ELSE /\ tables' = IF CanConnect(u) /\ dropped.ok THEN dropped.tables ELSE tables
                /\ last' = [op |-> "delete_data_source", user |-> u, id |-> data_source_id,
                            outcome |-> "500",
                            dropped |-> IF CanConnect(u) /\ dropped.ok
                                           /\ TableExists(tables, UserDbUrl(u),
                                                          Ident(table_name))
                                        THEN {Key(UserDbUrl(u), Ident(table_name))}
                                        ELSE {}]
        /\ UNCHANGED <<databases, extension, engine, procs, vector_sources, data_sources, chat>>

NextCatalog ==
    \/ \E u \in Users, name \in SourceNames, uuid \in Uuids, ingest \in Ingests :
          CreateVectorSource(u, name, uuid, ingest)
    \/ \E u \in Users, id \in SourceIds : DeleteDataSource(u, id)

SpecCatalog == InitCatalog /\ [][NextCatalog]_vars

\* ---------------------------------------------------------------- source registration
\* the two places that insert into vector_sources: create_vector_source and the file
\* upload of an agent (POST /agents/{agent_id}/vector-sources)

\* display names given to create_vector_source: two that differ in case only, one with
\* characters SQL gives a meaning to
RegisterNames == {<<"a">>, <<"A">>, <<"a", "\"", ";">>}
\* what uuid.uuid4() returns there: one that starts like an agent id
RegisterUuids == {<<"1">>, <<"e">>}
\* what ingesting gives there
RegisterIngests ==
    {[kind |-> "get_embedding", vectors |-> <<>>],
     [kind |-> "docs", vectors |-> <<[content |-> "b", embedding |-> <<1, 0>>]>>]}
\* the rows of the agents table
Agents == {[id |-> 1, user_id |-> 1], [id |-> 2, user_id |-> 2]}
\* agent ids asked of the upload route
AgentIds == {1, 2}
\* names of the files uploaded
Filenames == {<<"a">>, <<"A", ".", "b">>, <<"a", "_", "b">>}

\* file.filename.replace('.', '_').lower()
FileSuffix(filename) ==
    [i \in 1..Len(filename) |-> IF filename[i] = "." THEN "_" ELSE Lower(filename[i])]

\* f"vector_{current_user.id}_{agent_id}_{file.filename.replace('.', '_').lower()}"
AgentTableName(user_id, agent_id, filename) ==
    <<"vector_", ToString(user_id), "_", ToString(agent_id), "_">> \o FileSuffix(filename)

\* add_vector_source: the agent is looked up, the catalog row is added and flushed; any
\* exception (the 404 too) is answered 500 after db.rollback(); no table is created
AddVectorSource(u, agent_id, filename) ==
    LET agent == {a \in Agents : a.id = agent_id /\ a.user_id = u}
        table_name == AgentTableName(u, agent_id, filename)
        duplicate == TableNameTaken(vector_sources, table_name)
        row == [id |-> NextId(vector_sources), user_id |-> u, name |-> filename,
                table_name |-> table_name, updated |-> FALSE]
    IN  /\ (agent # {} /\ ~duplicate) => Cardinality(vector_sources) < MaxSources
        /\ IF agent = {} \/ duplicate
           THEN /\ UNCHANGED vector_sources
                /\ last' = [op |-> "add_vector_source", user |-> u, id |-> 0,
                            table |-> table_name, outcome |-> "error",
                            raised |-> IF agent = {} THEN "404" ELSE "flush"]
           ELSE /\ vector_sources' = vector_sources \cup {row}
                /\ last' = [op |-> "add_vector_source", user |-> u, id |-> row.id,
                            table |-> table_name, outcome |-> "ok", raised |-> ""]
        /\ UNCHANGED <<databases, extension, tables, engine, procs, data_sources, chat>>

NextRegister ==
    \/ \E u \in Users, name \in RegisterNames, uuid \in RegisterUuids,
          ingest \in RegisterIngests :
          CreateVectorSource(u, name, uuid, ingest)
    \/ \E u \in Users, agent_id \in AgentIds, filename \in Filenames :
          AddVectorSource(u, agent_id, filename)

SpecRegister == Init /\ [][NextRegister]_vars

\* ---------------------------------------------------------------- retrieval in chat
\* POST /chat/{agent_id}/messages (create_message): the sources attached to the request
\* are searched one after the other with one VectorService, their hits are put into one
\* list, and the answer is generated with or without them

\* search_similar(..., limit: int = 5)
DefaultLimit == 5

\* the documents of the sources a chat searches: one chunk each, or a batch whose second
\* chunk is refused (the table is left empty)
ChatDocuments ==
    {<<[content |-> "b", embedding |-> <<1, 0>>]>>,
     <<[content |-> "c", embedding |-> <<1, 1>>]>>,
     <<[content |-> "b", embedding |-> <<1, 0>>], [content |-> "a", embedding |-> <<1>>]>>}

\* what ingesting those sources gives: the embedding call raised (the catalog row has no
\* table), or the documents
ChatIngests ==
    {[kind |-> "get_embedding", vectors |-> <<>>]}
    \cup {[kind |-> "docs", vectors |-> v] : v \in ChatDocuments}

\* the display name of the sources a chat searches
ChatSourceNames == {<<"a">>}

\* the embedding of the message of a chat: it tells the two documents apart
ChatQueries == {<<1, 0>>}

\* the source ids of a request (source_ids, or the agent's vector_sources_ids): one id,
\* or every id, whoever owns the source and whether a row has it or not
RequestedIds == {{1}, SourceIds}

\* the orders in which a query without ORDER BY may return the rows S
Orderings(S) ==
    {s \in [1..Cardinality(S) -> S] : \A i, j \in 1..Cardinality(S) : i # j => s[i] # s[j]}

\* the rows are selected by id alone, whoever owns them
AvailableSources_AnyOwner(rows, u, ids) == {r \in rows : r.id \in ids}

\* VectorSource.user_id == current_user.id, VectorSource.id.in_(ids)
AvailableSources(rows, u, ids) == {r \in rows : r.user_id = u /\ r.id \in ids}

\* search_similar on the request's VectorService: get_embedding (embedding = None when
\* it raised), then search_vectors with the default limit on the rows read in order scan
search_similar(dbs, tbls, has_engine, u, source_name, embedding, scan) ==
    LET db == UserDbUrl(u)
        ident == Ident(source_name)
        \* ensure_engine connects only when the manager has no engine yet
        ensured == has_engine \/ db \in dbs
    IN  IF embedding = None
        THEN [ok |-> FALSE, rows |-> <<>>, engine |-> has_engine]
        ELSE IF ~ensured \/ db \notin dbs \/ ~TableExists(tbls, db, ident)
        THEN [ok |-> FALSE, rows |-> <<>>, engine |-> TRUE]
        ELSE LET got == PgSelectSimilar(tbls[Key(db, ident)], scan, VectorStr(embedding),
                                        DefaultLimit)
             IN  [ok |-> got.ok, rows |-> got.rows, engine |-> TRUE]

\* result['source_name'] = vector_source.name; result['table_name'] = ...
Tagged(rows, vector_source) ==
    [k \in 1..Len(rows) |->
        [content |-> rows[k].content, similarity |-> rows[k].similarity,
         source_name |-> vector_source.name, table_name |-> vector_source.table_name]]

\* the loop would leave through the exception of the source that failed
AfterSearch_Abort(c, got) ==
    IF got.ok
    THEN [c EXCEPT !.similar_results = @ \o Tagged(got.rows, c.available_sources[c.i]),
                   !.outcomes = Append(@, [ok |-> TRUE, rows |-> got.rows]),
                   !.engine = got.engine, !.i = @ + 1, !.pc = "loop"]
    ELSE [c EXCEPT !.outcomes = Append(@, [ok |-> FALSE, rows |-> <<>>]),
                   !.engine = got.engine, !.status = "500", !.raised = "search_similar",
                   !.pc = "done"]

\* the body of the loop once search_similar is over: the hits are appended with the
\* source they came from; except Exception: print(...); continue
AfterSearch(c, got) ==
    IF got.ok
    THEN [c EXCEPT !.similar_results = @ \o Tagged(got.rows, c.available_sources[c.i]),
                   !.outcomes = Append(@, [ok |-> TRUE, rows |-> got.rows]),
                   !.engine = got.engine, !.i = @ + 1, !.pc = "loop"]
    ELSE [c EXCEPT !.outcomes = Append(@, [ok |-> FALSE, rows |-> <<>>]),
                   !.engine = got.engine, !.i = @ + 1, !.pc = "loop"]

\* key=lambda x: x.get('score', 0): search_vectors names the field "similarity"
ScoreKey(result) == IF "score" \in DOMAIN result THEN result.score ELSE 0

\* list.sort(key=..., reverse=True): stable, equal keys keep their order
RECURSIVE InsertByKey(_, _)
InsertByKey(sorted, x) ==
    IF sorted = <<>> THEN <<x>>
    ELSE IF ScoreKey(x) > ScoreKey(Head(sorted)) THEN <<x>> \o sorted
    ELSE <<Head(sorted)>> \o InsertByKey(Tail(sorted), x)

RECURSIVE SortByScore(_, _)
SortByScore(results, sorted) ==
    IF results = <<>> THEN sorted
    ELSE SortByScore(Tail(results), InsertByKey(sorted, Head(results)))

\* connected_sources: the ids source_mapping gives for the table names of the hits
ConnectedSources(results, available_sources) ==
    {available_sources[i].id : i \in {j \in 1..Len(available_sources) :
        \E k \in 1..Len(results) : results[k].table_name = available_sources[j].table_name}}

\* the hits are handed to the model whether there are any or not
format_response_NoFallback(similar_results, available_sources, reference_enabled) ==
    [via |-> "get_ai_response_from_vectorstore",
     context |-> SortByScore(similar_results, <<>>),
     connected_sources |-> IF reference_enabled
                           THEN ConnectedSources(similar_results, available_sources)
                           ELSE {}]

\* if similar_results: sort, answer from the hits; if not response_content: answer from
\* the chat history alone
format_response(similar_results, available_sources, reference_enabled) ==
    IF similar_results # <<>>
    THEN [via |-> "get_ai_response_from_vectorstore",
          context |-> SortByScore(similar_results, <<>>),
          connected_sources |-> IF reference_enabled
                                THEN ConnectedSources(similar_results, available_sources)
                                ELSE {}]
    ELSE [via |-> "get_ai_response_from_model", context |-> <<>>,
          connected_sources |-> {}]

InitChat ==
    /\ databases = {}
    /\ extension = {}
    /\ tables = [k \in {} |-> 0]
    /\ engine = [u \in Users |-> FALSE]
    /\ last = [op |-> None]
    /\ procs = [p \in Procs |-> [pc |-> "idle", user |-> 0, found |-> FALSE,
                                 engine |-> FALSE]]
    /\ vector_sources = {}
    /\ data_sources = {}
    /\ chat = [pc |-> "idle"]

catalog == <<databases, extension, tables, engine, last, procs, vector_sources, data_sources>>

\* create_message up to the loop: the sources of the request are read from the catalog
CreateMessage(u, ids, q, reference_enabled) ==
    /\ chat.pc \in {"idle", "done"}
    /\ \E available_sources \in Orderings(AvailableSources(vector_sources, u, ids)) :
          chat' = [pc |-> "loop", user |-> u, ids |-> ids, query |-> q,
                   reference_enabled |-> reference_enabled,
                   available_sources |-> available_sources, i |-> 1, engine |-> FALSE,
                   similar_results |-> <<>>, outcomes |-> <<>>,
                   response |-> [via |-> None, context |-> <<>>, connected_sources |-> {}],
                   status |-> None, raised |-> None]
    /\ UNCHANGED catalog

\* for vector_source in available_sources: await vector_service.search_similar(...)
SearchSimilarCall ==
    /\ chat.pc = "loop"
    /\ chat.i <= Len(chat.available_sources)
    /\ chat' = [chat EXCEPT !.pc = "search_similar"]
    /\ UNCHANGED catalog

\* search_similar returns or raises: the embedding provider answered with the embedding
\* of the query or failed, the tenant database answered the SELECT or refused it
SearchSimilarReturn(embedded) ==
    /\ chat.pc = "search_similar"
    /\ LET vector_source == chat.available_sources[chat.i]
           key == Key(UserDbUrl(chat.user), Ident(vector_source.table_name))
           m == IF key \in DOMAIN tables THEN Len(tables[key].rows) ELSE 0
       IN  \E scan \in ScanOrders(m) :
              chat' = AfterSearch(chat,
                          search_similar(databases, tables, chat.engine, chat.user,
                                         vector_source.table_name,
                                         IF embedded THEN chat.query ELSE None, scan))
    /\ UNCHANGED catalog

\* after the loop: the hits are sorted and the conversation for the model is built
FormatResponse ==
    /\ chat.pc = "loop"
    /\ chat.i > Len(chat.available_sources)
    /\ chat' = [chat EXCEPT !.pc = "get_ai_response",
                            !.response = format_response(chat.similar_results,
                                                         chat.available_sources,
                                                         chat.reference_enabled)]
    /\ UNCHANGED catalog

\* the model answers (the message is stored and returned) or the call raises (the outer
\* except answers 500)
GetAiResponse(answered) ==
    /\ chat.pc = "get_ai_response"
    /\ chat' = [chat EXCEPT !.pc = "done",
                            !.status = IF answered THEN "200" ELSE "500",
                            !.raised = IF answered THEN None ELSE chat.response.via]
    /\ UNCHANGED catalog

NextChat ==
    \/ \E u \in Users, name \in ChatSourceNames, uuid \in Uuids, ingest \in ChatIngests :
          CreateVectorSource(u, name, uuid, ingest)
    \/ \E u \in Users, ids \in RequestedIds, q \in ChatQueries, r \in BOOLEAN :
          CreateMessage(u, ids, q, r)
    \/ SearchSimilarCall
    \/ \E embedded \in BOOLEAN : SearchSimilarReturn(embedded)
    \/ FormatResponse
    \/ \E answered \in BOOLEAN : GetAiResponse(answered)

SpecChat == InitChat /\ [][NextChat]_vars

\* the request's own steps are taken when they can be (the event loop runs a coroutine
\* that is ready); nothing makes the embedding provider, the database or the model answer
SpecChatLive ==
    SpecChat /\ WF_vars(SearchSimilarCall) /\ WF_vars(FormatResponse)

\* ---------------------------------------------------------------- source loader

\* the longest list of URLs or of file ids a source is configured with
MaxItems == 2

\* the URLs of a web_scraper source, one character per element: a.a, s://a, s://a:8,
\* /a, s://, a:8, s://:8 and the empty string
Urls ==
    {<<"a", ".", "a">>,
     <<"s", ":", "/", "/", "a">>,
     <<"s", ":", "/", "/", "a", ":", "8">>,
     <<"/", "a">>,
     <<"s", ":", "/", "/">>,
     <<"a", ":", "8">>,
     <<"s", ":", "/", "/", ":", "8">>,
     <<>>}

\* the entries of file_ids of a google_drive source: the id of an uploaded file, of a
\* Google document, of a Google Workspace file of a type that cannot be exported, of a
\* file of 0 bytes, and an entry that is not a string
FileIds == {"file", "document", "form", "empty", "not_str"}

Letters == {"a", "h", "p", "s", "t"}

\* scheme_chars of urllib.parse
SchemeChars == Letters \cup {"8", "+", "-", "."}

\* str.find over a set of characters, from position i: 0 when there is none
RECURSIVE Find(_, _, _)
Find(url, chars, i) ==
    IF i > Len(url) THEN 0
    ELSE IF url[i] \in chars THEN i
    ELSE Find(url, chars, i + 1)

\* urllib.parse.urlparse: what stands before the first colon is the scheme when it
\* starts with a letter and holds scheme characters only; the netloc is what follows a
\* leading // up to the next /, ? or #
urlparse(url) ==
    LET i == Find(url, {":"}, 1)
        has_scheme == /\ i > 1
                      /\ url[1] \in Letters
                      /\ \A j \in 1..(i - 1) : url[j] \in SchemeChars
        rest == IF has_scheme THEN SubSeq(url, i + 1, Len(url)) ELSE url
        slashes == Len(rest) >= 2 /\ rest[1] = "/" /\ rest[2] = "/"
        delim == Find(rest, {"/", "?", "#"}, 3)
        end == IF delim = 0 THEN Len(rest) ELSE delim - 1
    IN  [scheme |-> IF has_scheme THEN SubSeq(url, 1, i - 1) ELSE <<>>,
         netloc |-> IF slashes THEN SubSeq(rest, 3, end) ELSE <<>>,
         path |-> IF slashes THEN SubSeq(rest, end + 1, Len(rest)) ELSE rest]

\* f"https://{url}"
Https(url) == <<"h", "t", "t", "p", "s", ":", "/", "/">> \o url

\* _validate_url: https:// is prepended when urlparse finds no scheme; ValueError when
\* urlparse then finds no netloc
validate_url(url) ==
    LET with_scheme == IF urlparse(url).scheme = <<>> THEN Https(url) ELSE url
    IN  [ok |-> urlparse(with_scheme).netloc # <<>>, url |-> with_scheme]

\* the host of a netloc host[:port], as requests reads it before sending
Hostname(netloc) ==
    LET colon == Find(netloc, {":"}, 1)
    IN  IF colon = 0 THEN netloc ELSE SubSeq(netloc, 1, colon - 1)

\* the first URL of the list that _validate_url refuses (0: none)
RECURSIVE FirstInvalid(_, _)
FirstInvalid(urls, i) ==
    IF i > Len(urls) THEN 0
    ELSE IF ~validate_url(urls[i]).ok THEN i
    ELSE FirstInvalid(urls, i + 1)

\* WebBaseLoader.load: the pages are requested one after the other; requests raises
\* InvalidURL, sending nothing, for a URL without a host; the request of a page may fail
\* (down: the first page whose request fails, 0 when none does)
RECURSIVE WebBaseLoad(_, _, _, _)
WebBaseLoad(web_paths, i, down, requested) ==
    IF i > Len(web_paths) THEN [ok |-> TRUE, requested |-> requested]
    ELSE IF Hostname(urlparse(web_paths[i]).netloc) = <<>>
    THEN [ok |-> FALSE, requested |-> requested]
    ELSE IF i = down THEN [ok |-> FALSE, requested |-> Append(requested, web_paths[i])]
    ELSE WebBaseLoad(web_paths, i + 1, down, Append(requested, web_paths[i]))

\* _load_documents of a web_scraper source: every URL is validated, then the pages are
\* loaded, then document_count is written to connection_settings (one document a page)
LoadWebScraper(urls, down) ==
    LET invalid == FirstInvalid(urls, 1)
        validated_urls == [i \in 1..Len(urls) |-> validate_url(urls[i]).url]
        loaded == WebBaseLoad(validated_urls, 1, down, <<>>)
    IN  /\ last' = IF invalid # 0
                   THEN [op |-> "load_documents", source_type |-> "web_scraper",
                         items |-> urls, requested |-> <<>>, outcome |-> "error",
                         raised |-> "ValueError", documents |-> 0,
                         connection_settings |-> [urls |-> urls]]
                   ELSE IF ~loaded.ok
                   THEN [op |-> "load_documents", source_type |-> "web_scraper",
                         items |-> urls, requested |-> loaded.requested,
                         outcome |-> "error", raised |-> "WebBaseLoader", documents |-> 0,
                         connection_settings |-> [urls |-> urls]]
                   ELSE [op |-> "load_documents", source_type |-> "web_scraper",
                         items |-> urls, requested |-> loaded.requested,
                         outcome |-> "ok", raised |-> "", documents |-> Len(urls),
                         connection_settings |-> [urls |-> urls,
                                                  document_count |-> Len(urls)]]
        /\ UNCHANGED <<databases, extension, tables, engine, procs, vector_sources,
                       data_sources, chat>>

\* if isinstance(file_id, str): processed_file_ids.append(file_id)
RECURSIVE ProcessedFileIds(_)
ProcessedFileIds(file_ids) ==
    IF file_ids = <<>> THEN <<>>
    ELSE IF Head(file_ids) = "not_str" THEN ProcessedFileIds(Tail(file_ids))
    ELSE <<Head(file_ids)>> \o ProcessedFileIds(Tail(file_ids))

\* the loop over processed_file_ids: a file of 0 bytes raises, a Google Workspace file
\* of a type without export is printed and passed over, any other file gives a document
RECURSIVE DriveLoad(_, _)
DriveLoad(processed_file_ids, all_documents) ==
    IF processed_file_ids = <<>> THEN [ok |-> TRUE, documents |-> all_documents]
    ELSE IF Head(processed_file_ids) = "empty"
    THEN [ok |-> FALSE, documents |-> all_documents]
    ELSE IF Head(processed_file_ids) = "form"
    THEN DriveLoad(Tail(processed_file_ids), all_documents)
    ELSE DriveLoad(Tail(processed_file_ids),
                   Append(all_documents, Head(processed_file_ids)))

\* _load_documents of a google_drive source: all_documents is returned, and nothing is
\* written to connection_settings
LoadGoogleDrive(file_ids) ==
    LET loaded == DriveLoad(ProcessedFileIds(file_ids), <<>>)
    IN  /\ last' = [op |-> "load_documents", source_type |-> "google_drive",
                    items |-> file_ids, requested |-> ProcessedFileIds(file_ids),
                    outcome |-> IF loaded.ok THEN "ok" ELSE "error",
                    raised |-> IF loaded.ok THEN "" ELSE "Exception",
                    documents |-> IF loaded.ok THEN Len(loaded.documents) ELSE 0,
                    connection_settings |-> [file_ids |-> file_ids]]
        /\ UNCHANGED <<databases, extension, tables, engine, procs, vector_sources,
                       data_sources, chat>>

NextLoader ==
    \/ \E urls \in SeqsUpTo(Urls, MaxItems), down \in 0..MaxItems :
          LoadWebScraper(urls, down)
    \/ \E file_ids \in SeqsUpTo(FileIds, MaxItems) : LoadGoogleDrive(file_ids)

SpecLoader == Init /\ [][NextLoader]_vars

\* ---------------------------------------------------------------- properties

\* the database the service names for a tenant: vector_db_<tenant id>
TenantDatabase(u) == <<"vector_db_", u>>

\* the calls of a VectorDBManager
ManagerOps == {"create_user_database", "create_source_table", "store_vectors",
               "search_vectors", "delete_source_table", "close"}

\* C1: a call made through the manager of tenant T1 creates, changes or drops nothing
\* outside the database vector_db_<T1>: the databases, extensions and tables of every
\* other tenant are the same before and after the call.
C1_TenantIsolation ==
    [][last'.op \in ManagerOps =>
        LET mine == TenantDatabase(last'.user)
        IN  /\ \A d \in (databases' \ databases) \cup (databases \ databases') : d = mine
            /\ \A d \in (extension' \ extension) \cup (extension \ extension') : d = mine
            /\ \A k \in DOMAIN tables \cup DOMAIN tables' :
                  k[1] # mine => /\ k \in DOMAIN tables
                                 /\ k \in DOMAIN tables'
                                 /\ tables'[k] = tables[k]]_vars

\* tenant 1 has just stored rows in its table while tenant 2 holds rows in a table of the
\* same name
C1_Witness ==
    /\ last.op = "store_vectors" /\ last.outcome = "ok" /\ last.user = 1 /\ last.n > 0
    /\ Key(TenantDatabase(2), last.table) \in DOMAIN tables
    /\ Len(tables[Key(TenantDatabase(2), last.table)].rows) > 0

\* C2: create_user_database on a tenant whose database exists issues no CREATE DATABASE,
\* changes no database, extension or table and succeeds; on a tenant without a database
\* it creates exactly that tenant's database, with the vector extension enabled.
C2_EnsureTenantStoreIdempotent ==
    [][last'.op = "create_user_database" =>
        LET mine == TenantDatabase(last'.user)
        IN  /\ last'.outcome = "ok"
            /\ tables' = tables
            /\ mine \in extension'
            /\ IF mine \in databases
               THEN last'.issued = 0 /\ databases' = databases /\ extension' = extension
               ELSE last'.issued = 1 /\ databases' = databases \cup {mine}]_vars

\* a second create_user_database has returned on a database that already holds a table
C2_Witness ==
    /\ last.op = "create_user_database" /\ last.issued = 0 /\ last.outcome = "ok"
    /\ \E k \in DOMAIN tables : k[1] = TenantDatabase(last.user) /\ Len(tables[k].rows) > 0

\* C3: create_user_database calls running at once all return: the caller whose CREATE
\* DATABASE finds the database already made by another caller does not raise.
C3_ConcurrentEnsureSucceeds ==
    \A p \in Procs : procs[p].pc # "raised"

\* C4: create_source_table on a table that exists with the same dimension succeeds and
\* leaves every table, its dimension and its rows unchanged.
C4_CreateSourceTableIdempotent ==
    [][(/\ last'.op = "create_source_table"
        /\ Key(TenantDatabase(last'.user), last'.table) \in DOMAIN tables
        /\ tables[Key(TenantDatabase(last'.user), last'.table)].dim = last'.dim)
       => last'.outcome = "ok" /\ tables' = tables]_vars

\* a second identical create_source_table has returned on a table that holds rows
C4_Witness ==
    /\ last.op = "create_source_table" /\ last.existed /\ last.outcome = "ok"
    /\ Key(TenantDatabase(last.user), last.table) \in DOMAIN tables
    /\ tables[Key(TenantDatabase(last.user), last.table)].dim = last.dim
    /\ Len(tables[Key(TenantDatabase(last.user), last.table)].rows) > 0

\* C5: store_vectors of a batch of n chunks either returns with the n rows appended to
\* the table, or raises with every table exactly as it was: no failed call leaves some of
\* its rows behind.
C5_StoreVectorsAllOrNothing ==
    [][last'.op = "store_vectors" =>
        LET k == Key(TenantDatabase(last'.user), last'.table)
        IN  IF last'.outcome = "ok" /\ last'.n > 0
            THEN /\ k \in DOMAIN tables /\ k \in DOMAIN tables'
                 /\ Len(tables'[k].rows) = Len(tables[k].rows) + last'.n
                 /\ SubSeq(tables'[k].rows, 1, Len(tables[k].rows)) = tables[k].rows
                 /\ \A j \in DOMAIN tables' \ {k} : j \in DOMAIN tables /\ tables'[j] = tables[j]
            ELSE tables' = tables]_vars

\* a store_vectors has raised at its second or a later chunk, after an INSERT of the same
\* batch had gone through
C5_Witness ==
    /\ last.op = "store_vectors" /\ last.outcome = "error" /\ last.failedAt >= 2

\* C6: a batch holding a chunk whose embedding length differs from the table's dimension
\* makes store_vectors raise and leaves every table as it was; a stored embedding always
\* has the length of its table's dimension.
C6_DimensionMismatchRejected ==
    [][/\ (last'.op = "store_vectors" /\ last'.mismatch > 0)
            => (last'.outcome = "error" /\ tables' = tables)
       /\ \A k \in DOMAIN tables' :
            \A i \in 1..Len(tables'[k].rows) :
                Len(tables'[k].rows[i].embedding) = tables'[k].dim]_vars

\* a batch whose second chunk has the wrong length was handed to a table that exists
C6_Witness ==
    /\ last.op = "store_vectors" /\ last.mismatch >= 2 /\ last.outcome = "error"

C8_DeleteDropsSourceTable ==
    last.op = "delete_data_source" =>
        \A r \in vector_sources :
            (r.id = last.id /\ r.user_id = last.user)
               => Key(TenantDatabase(r.user_id), r.table_name) \notin DOMAIN tables

\* C9: delete_source_table succeeds whether or not the table, the tenant's database or
\* the engine exists.
C9_DropAlwaysSucceeds ==
    last.op = "delete_source_table" => last.outcome = "ok"

\* the similarity the search reports for a row: one minus the cosine distance
ClaimedScore(embedding, query) ==
    [a |-> 0, b |-> 1, num |-> Dot(embedding, query),
     den2 |-> Dot(embedding, embedding) * Dot(query, query)]

\* how often a (content, similarity) pair occurs in a sequence
Occurrences(seq, x) == Cardinality({i \in 1..Len(seq) : seq[i] = x})

\* C10: a search_vectors that returns has min(limit, m) entries out of the m rows of the
\* table, each with the similarity one minus cosine distance, in non-increasing order of
\* similarity, and no row left out has a higher similarity than a row returned.
C10_SearchTopK ==
    (last.op = "search_vectors" /\ last.outcome = "ok") =>
        LET rows == tables[Key(TenantDatabase(last.user), last.table)].rows
            scored == [i \in 1..Len(rows) |->
                          [content |-> rows[i].content,
                           similarity |-> ClaimedScore(rows[i].embedding, last.query)]]
            res == last.result
        IN  /\ Len(res) <= last.limit
            /\ Len(res) = Min(last.limit, Len(rows))
            /\ \A i \in 1..Len(res) : Occurrences(res, res[i]) <= Occurrences(scored, res[i])
            /\ \A i, j \in 1..Len(res) :
                  i < j => RatioGE(res[i].similarity, res[j].similarity)
            /\ \A i \in 1..Len(scored) :
                  Occurrences(res, scored[i]) < Occurrences(scored, scored[i])
                     => \A j \in 1..Len(res) :
                           RatioGE(res[j].similarity, scored[i].similarity)

\* a search with a limit below the number of rows has returned a row that was not the
\* first one stored
C10_Witness ==
    /\ last.op = "search_vectors" /\ last.outcome = "ok"
    /\ last.limit >= 1
    /\ Len(tables[Key(TenantDatabase(last.user), last.table)].rows) > last.limit
    /\ last.result[1].content
          # tables[Key(TenantDatabase(last.user), last.table)].rows[1].content

\* C11: a search with limit <= 0 ends in an error, never in a result list.
C11_NonPositiveLimitIsError ==
    (last.op = "search_vectors" /\ last.limit <= 0) => last.outcome = "error"

\* the request is past its retrieval loop
Retrieved == chat.pc \in {"get_ai_response", "done"}

\* the hits of the sources whose search returned, in the order the sources were searched
RECURSIVE HitsOfSucceeded(_, _, _)
HitsOfSucceeded(available_sources, outcomes, i) ==
    IF i > Len(outcomes) THEN <<>>
    ELSE (IF outcomes[i].ok THEN Tagged(outcomes[i].rows, available_sources[i]) ELSE <<>>)
         \o HitsOfSucceeded(available_sources, outcomes, i + 1)

\* C12: once the loop of a query is over, every attached source has been searched, also
\* those behind a source that failed; the merged list holds exactly the hits of the
\* sources whose search returned and no hit of a source whose search failed (a request
\* never ends inside the loop).
C12_SourceFailureIsLocal ==
    Retrieved =>
       /\ Len(chat.outcomes) = Len(chat.available_sources)
       /\ chat.similar_results = HitsOfSucceeded(chat.available_sources, chat.outcomes, 1)
       /\ \A i \in 1..Len(chat.outcomes) :
             ~chat.outcomes[i].ok =>
                \A k \in 1..Len(chat.similar_results) :
                   chat.similar_results[k].table_name
                      # chat.available_sources[i].table_name

\* a query over two sources: the first one failed, the second one was searched all the
\* same and its hit is in the merged list
C12_Witness ==
    /\ Retrieved
    /\ Len(chat.available_sources) = 2
    /\ ~chat.outcomes[1].ok
    /\ chat.outcomes[2].ok
    /\ Len(chat.similar_results) = 1
    /\ chat.similar_results[1].table_name = chat.available_sources[2].table_name

\* the similar_results of a query whose sources answered as in outcomes
RECURSIVE Retrieve(_, _, _)
Retrieve(available_sources, outcomes, i) ==
    IF i > Len(outcomes) THEN <<>>
    ELSE (IF outcomes[i].ok THEN Tagged(outcomes[i].rows, available_sources[i]) ELSE <<>>)
         \o Retrieve(available_sources, outcomes, i + 1)

\* the outcomes of the same query had every search that failed returned no row instead
FailuresAsEmpty(outcomes) ==
    [i \in 1..Len(outcomes) |-> IF outcomes[i].ok THEN outcomes[i]
                                ELSE [ok |-> TRUE, rows |-> <<>>]]

\* C13: when a source failed during a query in which another source gave hits, the
\* response names the failing source as skipped: the response differs from the one the
\* same query gives when that source is searched without error and has nothing to return.
C13_DegradedSourcesReported ==
    (/\ Retrieved
     /\ chat.similar_results # <<>>
     /\ \E i \in 1..Len(chat.outcomes) : ~chat.outcomes[i].ok) =>
        chat.response #
            format_response(Retrieve(chat.available_sources,
                                     FailuresAsEmpty(chat.outcomes), 1),
                            chat.available_sources, chat.reference_enabled)

\* C14: the merged list is in non-increasing order of similarity whatever the sources
\* of two hits and the order the sources were searched in, and every hit names its
\* source.
C14_MergedSortedByScore ==
    Retrieved =>
       /\ \A i, j \in 1..Len(chat.response.context) :
             i < j => RatioGE(chat.response.context[i].similarity,
                              chat.response.context[j].similarity)
       /\ \A i \in 1..Len(chat.response.context) :
             \E k \in 1..Len(chat.available_sources) :
                /\ chat.response.context[i].source_name = chat.available_sources[k].name
                /\ chat.response.context[i].table_name
                      = chat.available_sources[k].table_name

\* no source of the query gave a hit: each one failed or returned nothing, or none is
\* attached
NoUsableResult == \A i \in 1..Len(chat.outcomes) : chat.outcomes[i].rows = <<>>

\* C15: a query none of whose sources gave a hit ends its retrieval with an empty context
\* and is answered from the conversation alone; the request ends with a response unless
\* the generation itself raised, never with an error that comes from the retrieval.
C15_NoContextIsNotFatal ==
    /\ (Retrieved /\ NoUsableResult) =>
          /\ Len(chat.outcomes) = Len(chat.available_sources)
          /\ chat.response = [via |-> "get_ai_response_from_model", context |-> <<>>,
                              connected_sources |-> {}]
    /\ (chat.pc = "done" /\ NoUsableResult) =>
          \/ chat.status = "200" /\ chat.raised = None
          \/ chat.status = "500" /\ chat.raised = "get_ai_response_from_model"

\* a request over two sources, one that failed and one that returned no row, was answered
C15_Witness ==
    /\ chat.pc = "done"
    /\ chat.status = "200"
    /\ Len(chat.available_sources) = 2
    /\ \E i, j \in 1..2 : /\ ~chat.outcomes[i].ok
                          /\ chat.outcomes[j].ok /\ chat.outcomes[j].rows = <<>>

\* C16: a query all of whose searches failed is answered with a response that differs
\* from the response to the same query when all its sources are searched without error
\* and have nothing similar to return.
C16_TotalFailureDistinguishable ==
    (/\ Retrieved
     /\ Len(chat.available_sources) >= 1
     /\ \A i \in 1..Len(chat.outcomes) : ~chat.outcomes[i].ok) =>
        chat.response #
            format_response(Retrieve(chat.available_sources,
                                     FailuresAsEmpty(chat.outcomes), 1),
                            chat.available_sources, chat.reference_enabled)

\* C17: while the search of a source is in flight and another source waits, the search
\* of the next source can be started.
C17_SearchesRunConcurrently ==
    (chat.pc = "search_similar" /\ chat.i < Len(chat.available_sources)) =>
        ENABLED SearchSimilarCall

\* C18: a query whose search of a source is in flight reaches its merged state, also
\* when that search never answers.
C18_QueryReachesMerged ==
    (chat.pc = "search_similar") ~> Retrieved

\* the table that backs a catalog row: the tenant's database and the identifier the
\* statements built from table_name name
BackingTable(r) == Key(UserDbUrl(r.user_id), Ident(r.table_name))

IdentifierChars == {"vector_", "_", "a", "b", "c", "e", "f", "0", "1", "2"}

\* C20: every table name the catalog holds and every table the statements created is made
\* of the restricted characters only.
C20_IdentifiersSanitized ==
    /\ \A r \in vector_sources :
          \A i \in 1..Len(r.table_name) : r.table_name[i] \in IdentifierChars
    /\ \A k \in DOMAIN tables : \A i \in 1..Len(k[2]) : k[2][i] \in IdentifierChars

\* C21: a create_source_table with a dimension of 0 or less ends in an error without
\* any CREATE TABLE having been sent.
C21_BadDimensionRejectedBeforeDdl ==
    (last.op = "create_source_table" /\ last.dim <= 0) =>
        last.outcome = "error" /\ last.issued = 0

C24_DimensionImmutable ==
    [][\A k \in DOMAIN tables \cap DOMAIN tables' :
          /\ tables'[k].dim = tables[k].dim
          /\ \A i \in 1..Len(tables'[k].rows) :
                Len(tables'[k].rows[i].embedding) = tables[k].dim]_vars

\* C24 witness: create_source_table has been called with another dimension on a table
\* that holds a row, and returned
C24_Witness ==
    /\ last.op = "create_source_table" /\ last.existed /\ last.outcome = "ok"
    /\ TableExists(tables, TenantDatabase(last.user), last.table)
    /\ tables[Key(TenantDatabase(last.user), last.table)].dim # last.dim
    /\ Len(tables[Key(TenantDatabase(last.user), last.table)].rows) >= 1

\* the rows of the table a registration was given
RowsOf(u, table_name) ==
    IF TableExists(tables, TenantDatabase(u), Ident(table_name))
    THEN tables[Key(TenantDatabase(u), Ident(table_name))].rows
    ELSE <<>>

\* C23: a registration that returned for a source of n chunks made n embedding calls and
\* its table holds n rows, row i being chunk i with the embedding of chunk i.
C23_OneRowPerChunk ==
    (last.op = "create_vector_source" /\ last.outcome = "ok") =>
        /\ last.calls = Len(last.documents)
        /\ Len(RowsOf(last.user, last.table)) = Len(last.documents)
        /\ \A i \in 1..Len(last.documents) :
              /\ RowsOf(last.user, last.table)[i].content = last.documents[i].content
              /\ RowsOf(last.user, last.table)[i].embedding =
                     get_embedding(last.documents[i].content)

\* C23 witness: a registration of two chunks with different embeddings returned
C23_Witness ==
    /\ last.op = "create_vector_source" /\ last.outcome = "ok"
    /\ Len(last.documents) = 2
    /\ get_embedding(last.documents[1].content) # get_embedding(last.documents[2].content)
    /\ Len(RowsOf(last.user, last.table)) = 2

\* C25: a registration sends no INSERT for a chunk whose embedding is not of the
\* dimension of the table: the INSERTs sent stop before the first such chunk.
C25_LengthValidatedBeforeInsert ==
    (last.op = "create_vector_source" /\ last.mismatch > 0) =>
        last.inserts < last.mismatch

\* C28: every row of the catalog has its table in the database of its tenant.
C28_CatalogRowHasTable ==
    \A r \in vector_sources : BackingTable(r) \in DOMAIN tables

\* C30: a registration in which loading or an embedding call raised leaves no table of
\* the name it was given, hence no row.
C30_NoTableBeforeEmbedding ==
    (last.op = "create_vector_source" /\ last.raised \in {"load_and_split", "get_embedding"})
        => /\ ~TableExists(tables, TenantDatabase(last.user), Ident(last.table))
           /\ last.inserts = 0

\* C30 witness: an embedding call raised in a registration whose tenant database was
\* provisioned with the extension, so that a CREATE TABLE would have gone through
C30_Witness ==
    /\ last.op = "create_vector_source" /\ last.raised = "get_embedding"
    /\ TenantDatabase(last.user) \in databases
    /\ TenantDatabase(last.user) \in extension

\* C29: the sources a chat request of tenant U goes through are rows of the catalog
\* owned by U with an id the request asked for, and every hit it collected is a row of
\* the table of that name in U's own database.
C29_ChatSearchesOwnSourcesOnly ==
    chat.pc # "idle" =>
        /\ \A i \in 1..Len(chat.available_sources) :
              /\ chat.available_sources[i] \in vector_sources
              /\ chat.available_sources[i].user_id = chat.user
              /\ chat.available_sources[i].id \in chat.ids
        /\ \A k \in 1..Len(chat.similar_results) :
              \E i \in 1..Len(RowsOf(chat.user, chat.similar_results[k].table_name)) :
                 RowsOf(chat.user, chat.similar_results[k].table_name)[i].content =
                     chat.similar_results[k].content

\* C29 witness: the request asked for the id of a source of another tenant, whose table
\* holds a row; the loop is over and brought a hit of its own source
C29_Witness ==
    /\ chat.pc = "done"
    /\ chat.similar_results # <<>>
    /\ \E r \in vector_sources :
          /\ r.id \in chat.ids /\ r.user_id # chat.user
          /\ RowsOf(r.user_id, r.table_name) # <<>>

\* C26: when a URL of a web_scraper source has no host once it has its scheme, the load
\* ends in an error and no page has been requested; and every page requested is a URL
\* with a scheme.
C26_UrlsValidatedBeforeFetch ==
    (last.op = "load_documents" /\ last.source_type = "web_scraper") =>
        /\ (\E i \in 1..Len(last.items) :
               Hostname(urlparse(IF urlparse(last.items[i]).scheme = <<>>
                                 THEN Https(last.items[i])
                                 ELSE last.items[i]).netloc) = <<>>)
              => (last.outcome = "error" /\ last.requested = <<>>)
        /\ \A k \in 1..Len(last.requested) : urlparse(last.requested[k]).scheme # <<>>

\* the number of skipped items a load wrote down
ReportedSkipped(connection_settings) ==
    IF "skipped" \in DOMAIN connection_settings THEN connection_settings.skipped ELSE 0

\* C27: a load that returned accounts for every item it was asked for: the documents it
\* returned plus the skipped items it reported are the items requested.
C27_SkippedReported ==
    (last.op = "load_documents" /\ last.outcome = "ok") =>
        last.documents + ReportedSkipped(last.connection_settings) = Len(last.items)

====
